---- MODULE Spec2Model ----
(***************************************************************************)
(* Model of the LRU cache of src/src/cache.rs: Cache<K, V> with K = V =    *)
(* String (the instantiation of main.rs and of the persistence tests) or   *)
(* K = V = i32 (the instantiation of benchmark.rs).                        *)
(* A String is modelled as a sequence of one-character strings, an i32 as  *)
(* an integer.                                                             *)
(***************************************************************************)
EXTENDS Integers, Sequences, FiniteSets, TLC

TAB == "\t"
LF == "\n"
CR == "\r"
\* A byte of the file that read_line cannot hand back: it is no valid UTF-8,
\* or the read fails on it.
INVALID == "<FF>"

\* Largest capacity passed to new / new_persistent.
MaxCapacity == 3

\* Largest number of lines of a file that the program did not write itself.
MaxLines == 2

\* The keys and values the callers use: Keys where the file takes part,
\* LruKeys where only put and get are called.
Keys == {<<"a">>, <<"b">>, <<"c">>}
LruKeys == Keys \cup {<<"d">>}
Values == {<<"x">>, <<"x", CR>>}

\* Option<T>: None is the empty sequence, Some(x) the one-element sequence.
None == <<>>
Some(x) == <<x>>

\* ty:       the type K = V the cache is instantiated with, "String" or "i32".
\* capacity, map, head, tail: the fields of the Cache in use.
\* panicked: an unwrap() failed and the process aborted.
\* file:     the file at the one path the callers use, None while it does not exist.
\* used:     history: the keys put or hit so far on this cache, most recent first.
\* last:     history: the last call, its arguments and what it returned.
VARIABLES ty, capacity, map, head, tail, panicked, file, used, last
vars == <<ty, capacity, map, head, tail, panicked, file, used, last>>

----------------------------------------------------------------------------
(* HashMap helpers *)

EmptyMap == [x \in {} |-> None]
contains_key(m, key) == key \in DOMAIN m
len(m) == Cardinality(DOMAIN m)
insert(m, key, entry) == [x \in DOMAIN m \cup {key} |-> IF x = key THEN entry ELSE m[x]]
remove(m, key) == [x \in DOMAIN m \ {key} |-> m[x]]

\* An unwrap() of a failed lookup aborts the call; the cache is left as it was
\* at that point.
Panic(c) == [c EXCEPT !.panicked = TRUE]

\* Cache::new
new(cap) == [capacity |-> cap, map |-> EmptyMap, head |-> None, tail |-> None,
             panicked |-> FALSE]

----------------------------------------------------------------------------
(* The recency list *)

\* remove_node without its last line: the tail is not moved to the predecessor.
remove_node_keeps_tail(c, key) ==
    IF ~contains_key(c.map, key) THEN Panic(c)
    ELSE
      LET node == c.map[key]
          prev_key_opt == node.prev
          next_key_opt == node.next
          c1 == IF prev_key_opt # None
                THEN IF ~contains_key(c.map, prev_key_opt[1]) THEN Panic(c)
                     ELSE [c EXCEPT !.map[prev_key_opt[1]].next = next_key_opt]
                ELSE [c EXCEPT !.head = next_key_opt]
      IN  IF c1.panicked THEN c1
          ELSE IF next_key_opt # None
               THEN IF ~contains_key(c1.map, next_key_opt[1]) THEN Panic(c1)
                    ELSE [c1 EXCEPT !.map[next_key_opt[1]].prev = prev_key_opt]
               ELSE c1

\* remove_node whose first else branch copies the wrong neighbour into head.
remove_node_head_to_prev(c, key) ==
    IF ~contains_key(c.map, key) THEN Panic(c)
    ELSE
      LET node == c.map[key]
          prev_key_opt == node.prev
          next_key_opt == node.next
          c1 == IF prev_key_opt # None
                THEN IF ~contains_key(c.map, prev_key_opt[1]) THEN Panic(c)
                     ELSE [c EXCEPT !.map[prev_key_opt[1]].next = next_key_opt]
                ELSE [c EXCEPT !.head = prev_key_opt]
      IN  IF c1.panicked THEN c1
          ELSE IF next_key_opt # None
               THEN IF ~contains_key(c1.map, next_key_opt[1]) THEN Panic(c1)
                    ELSE [c1 EXCEPT !.map[next_key_opt[1]].prev = prev_key_opt]
               ELSE [c1 EXCEPT !.tail = prev_key_opt]

remove_node(c, key) ==
    IF ~contains_key(c.map, key) THEN Panic(c)
    ELSE
      LET node == c.map[key]
          prev_key_opt == node.prev
          next_key_opt == node.next
          c1 == IF prev_key_opt # None
                THEN IF ~contains_key(c.map, prev_key_opt[1]) THEN Panic(c)
                     ELSE [c EXCEPT !.map[prev_key_opt[1]].next = next_key_opt]
                ELSE [c EXCEPT !.head = next_key_opt]
      IN  IF c1.panicked THEN c1
          ELSE IF next_key_opt # None
               THEN IF ~contains_key(c1.map, next_key_opt[1]) THEN Panic(c1)
                    ELSE [c1 EXCEPT !.map[next_key_opt[1]].prev = prev_key_opt]
               ELSE [c1 EXCEPT !.tail = prev_key_opt]

\* add_to_head that sets head only on an empty list.
add_to_head_keeps_head(c, key) ==
    IF ~contains_key(c.map, key) THEN Panic(c)
    ELSE
      LET c1 == [c EXCEPT !.map[key].prev = None, !.map[key].next = c.head]
          c2 == IF c1.head # None
                THEN IF ~contains_key(c1.map, c1.head[1]) THEN Panic(c1)
                     ELSE [c1 EXCEPT !.map[c1.head[1]].prev = Some(key)]
                ELSE [c1 EXCEPT !.head = Some(key)]
      IN  IF c2.panicked THEN c2
          ELSE IF c2.tail = None THEN [c2 EXCEPT !.tail = Some(key)] ELSE c2

\* add_to_head that does not link the old head back to the new one.
add_to_head_no_back_link(c, key) ==
    IF ~contains_key(c.map, key) THEN Panic(c)
    ELSE
      LET c1 == [c EXCEPT !.map[key].prev = None, !.map[key].next = c.head]
          c3 == [c1 EXCEPT !.head = Some(key)]
      IN  IF c3.tail = None THEN [c3 EXCEPT !.tail = Some(key)] ELSE c3

\* add_to_head that leaves tail alone, also on an empty list.
add_to_head_no_tail(c, key) ==
    IF ~contains_key(c.map, key) THEN Panic(c)
    ELSE
      LET c1 == [c EXCEPT !.map[key].prev = None, !.map[key].next = c.head]
          c2 == IF c1.head # None
                THEN IF ~contains_key(c1.map, c1.head[1]) THEN Panic(c1)
                     ELSE [c1 EXCEPT !.map[c1.head[1]].prev = Some(key)]
                ELSE c1
      IN  IF c2.panicked THEN c2 ELSE [c2 EXCEPT !.head = Some(key)]

add_to_head(c, key) ==
    IF ~contains_key(c.map, key) THEN Panic(c)
    ELSE
      LET c1 == [c EXCEPT !.map[key].prev = None, !.map[key].next = c.head]
          c2 == IF c1.head # None
                THEN IF ~contains_key(c1.map, c1.head[1]) THEN Panic(c1)
                     ELSE [c1 EXCEPT !.map[c1.head[1]].prev = Some(key)]
                ELSE c1
      IN  IF c2.panicked THEN c2
          ELSE LET c3 == [c2 EXCEPT !.head = Some(key)]
               IN  IF c3.tail = None THEN [c3 EXCEPT !.tail = Some(key)] ELSE c3

\* move_to_head that looks the key up and leaves it where it is.
move_to_head_stays(c, key) ==
    IF ~contains_key(c.map, key) THEN Panic(c) ELSE c

move_to_head(c, key) ==
    LET c1 == remove_node(c, key)
    IN  IF c1.panicked THEN c1 ELSE add_to_head(c1, key)

\* remove_tail that takes the entry at head, the most recently used one.
remove_tail_takes_head(c) ==
    IF c.head # None
    THEN LET head_key == c.head[1]
             c1 == remove_node(c, head_key)
         IN  IF c1.panicked THEN c1
             ELSE [c1 EXCEPT !.map = remove(c1.map, head_key)]
    ELSE c

remove_tail(c) ==
    IF c.tail # None
    THEN LET tail_key == c.tail[1]
             c1 == remove_node(c, tail_key)
         IN  IF c1.panicked THEN c1
             ELSE [c1 EXCEPT !.map = remove(c1.map, tail_key)]
    ELSE c

----------------------------------------------------------------------------
(* impl LRUCache for Cache *)

\* put that evicts only once the table holds more than capacity entries.
put_evicts_late(c, key, value) ==
    LET c1 == IF contains_key(c.map, key)
              THEN remove_node(c, key)
              ELSE IF len(c.map) > c.capacity THEN remove_tail(c) ELSE c
    IN  IF c1.panicked THEN c1
        ELSE add_to_head(
               [c1 EXCEPT !.map = insert(c1.map, key,
                                    [value |-> value, prev |-> None, next |-> None])],
               key)

\* put that makes room on a full table before it looks the key up.
put_evicts_first(c, key, value) ==
    LET c0 == IF len(c.map) = c.capacity THEN remove_tail(c) ELSE c
        c1 == IF c0.panicked THEN c0
              ELSE IF contains_key(c0.map, key) THEN remove_node(c0, key) ELSE c0
    IN  IF c1.panicked THEN c1
        ELSE add_to_head(
               [c1 EXCEPT !.map = insert(c1.map, key,
                                    [value |-> value, prev |-> None, next |-> None])],
               key)

\* put that replaces the value of a present key where it is in the list.
put_overwrites_in_place(c, key, value) ==
    IF contains_key(c.map, key)
    THEN [c EXCEPT !.map[key].value = value]
    ELSE LET c1 == IF len(c.map) = c.capacity THEN remove_tail(c) ELSE c
         IN  IF c1.panicked THEN c1
             ELSE add_to_head(
                    [c1 EXCEPT !.map = insert(c1.map, key,
                                         [value |-> value, prev |-> None, next |-> None])],
                    key)

\* put that evicts one entry early: when the table holds capacity - 1 or more.
put_evicts_early(c, key, value) ==
    LET c1 == IF contains_key(c.map, key)
              THEN remove_node(c, key)
              ELSE IF len(c.map) + 1 >= c.capacity THEN remove_tail(c) ELSE c
    IN  IF c1.panicked THEN c1
        ELSE add_to_head(
               [c1 EXCEPT !.map = insert(c1.map, key,
                                    [value |-> value, prev |-> None, next |-> None])],
               key)

put(c, key, value) ==
    LET c1 == IF contains_key(c.map, key)
              THEN remove_node(c, key)
              ELSE IF len(c.map) = c.capacity THEN remove_tail(c) ELSE c
    IN  IF c1.panicked THEN c1
        ELSE add_to_head(
               [c1 EXCEPT !.map = insert(c1.map, key,
                                    [value |-> value, prev |-> None, next |-> None])],
               key)

\* get that reads the value without moving the key to head.
get_without_promotion(c, key) ==
    IF ~contains_key(c.map, key) THEN [self |-> c, ret |-> None]
    ELSE [self |-> c, ret |-> Some(c.map[key].value)]

\* get without the contains_key test: a miss reaches the unwrap of remove_node.
get_unchecked(c, key) ==
    LET c1 == move_to_head(c, key)
    IN  IF c1.panicked THEN [self |-> c1, ret |-> None]
        ELSE IF ~contains_key(c1.map, key)
             THEN [self |-> Panic(c1), ret |-> None]
             ELSE [self |-> c1, ret |-> Some(c1.map[key].value)]

\* get returns the cache after the call and the Option<&V> it hands back.
get(c, key) ==
    IF ~contains_key(c.map, key) THEN [self |-> c, ret |-> None]
    ELSE LET c1 == move_to_head(c, key)
         IN  IF c1.panicked THEN [self |-> c1, ret |-> None]
             ELSE IF ~contains_key(c1.map, key)
                  THEN [self |-> Panic(c1), ret |-> None]
                  ELSE [self |-> c1, ret |-> Some(c1.map[key].value)]

----------------------------------------------------------------------------
(* Text: what writeln!, BufRead::lines, str::split and str::parse do *)

DigitChars == <<"0", "1", "2", "3", "4", "5", "6", "7", "8", "9">>
IsDigit(ch) == \E d \in 1..10 : DigitChars[d] = ch
DigitValue(ch) == (CHOOSE d \in 1..10 : DigitChars[d] = ch) - 1

\* The decimal digits of n >= 0.
RECURSIVE digits(_)
digits(n) ==
    IF n < 10 THEN <<DigitChars[n + 1]>>
    ELSE digits(n \div 10) \o <<DigitChars[(n % 10) + 1]>>

\* The number that a sequence of decimal digits writes.
RECURSIVE number(_)
number(ds) ==
    IF ds = <<>> THEN 0
    ELSE number(SubSeq(ds, 1, Len(ds) - 1)) * 10 + DigitValue(ds[Len(ds)])

\* Display for i32: a minus sign for a negative number, then its digits.
fmt_i32(n) == IF n < 0 THEN <<"-">> \o digits(-n) ELSE digits(n)

\* i32::from_str: an optional sign, then one decimal digit or more, and the
\* number must fit in 32 bits; None stands for the Err.
parse_i32(s) ==
    IF s = <<>> THEN None
    ELSE LET ds == IF s[1] \in {"+", "-"} THEN Tail(s) ELSE s
         IN  IF ds = <<>> \/ \E i \in 1..Len(ds) : ~IsDigit(ds[i]) THEN None
             ELSE LET n == IF s[1] = "-" THEN -number(ds) ELSE number(ds)
                  IN  IF n > 2147483647 \/ n < -2147483647 - 1 THEN None ELSE Some(n)

\* Display for String writes the string itself.
fmt(s) == IF ty = "String" THEN s ELSE fmt_i32(s)

\* String::from_str never fails: Ok(s), written Some(s).
parse(s) == IF ty = "String" THEN Some(s) ELSE parse_i32(s)

\* writeln!(file, "{}\t{}", key, value)
writeln(key, value) == fmt(key) \o <<TAB>> \o fmt(value) \o <<LF>>

\* Position of the first ch in s, 0 when there is none.
find(s, ch) ==
    IF \E i \in 1..Len(s) : s[i] = ch
    THEN CHOOSE i \in 1..Len(s) : s[i] = ch /\ \A j \in 1..(i - 1) : s[j] # ch
    ELSE 0

\* BufRead::lines: each item is the text up to the next "\n" (or the end of
\* the input), without that "\n" and without a "\r" right before it.
RECURSIVE lines(_)
lines(s) ==
    IF s = <<>> THEN <<>>
    ELSE LET i == find(s, LF)
         IN  IF i = 0 THEN <<s>>
             ELSE LET l == SubSeq(s, 1, i - 1)
                      stripped == IF Len(l) > 0 /\ l[Len(l)] = CR
                                  THEN SubSeq(l, 1, Len(l) - 1) ELSE l
                  IN  <<stripped>> \o lines(SubSeq(s, i + 1, Len(s)))

\* str::split(ch): the fields between the occurrences of ch, at least one.
RECURSIVE split(_, _)
split(s, ch) ==
    LET i == find(s, ch)
    IN  IF i = 0 THEN <<s>>
        ELSE <<SubSeq(s, 1, i - 1)>> \o split(SubSeq(s, i + 1, Len(s)), ch)

----------------------------------------------------------------------------
(* Persistence *)

\* The orders in which `for (key, (value, _)) in &self.map` may visit the keys.
IterOrders(m) ==
    {o \in [1..len(m) -> DOMAIN m] : \A i, j \in 1..len(m) : o[i] = o[j] => i = j}

\* The body of save_to_file's loop, run over the keys in the order given.
RECURSIVE write_entries(_, _)
write_entries(m, order) ==
    IF order = <<>> THEN <<>>
    ELSE writeln(Head(order), m[Head(order)].value) \o write_entries(m, Tail(order))

\* save_to_file: File::create truncates, then one line per entry.
save_to_file(c, order) == [file |-> Some(write_entries(c.map, order)), ret |-> "Ok"]

\* The (key, value) pair load_from_file puts for a line, None when it skips it.
parse_line(line) ==
    LET parts == split(line, TAB)
    IN  IF Len(parts) >= 2 /\ parse(parts[1]) # None /\ parse(parts[2]) # None
        THEN Some(<<parse(parts[1])[1], parse(parts[2])[1]>>)
        ELSE None

\* `line?`: the item of lines() is an Err when the line cannot be read.
readable(line) == \A i \in 1..Len(line) : line[i] # INVALID

\* The loop of load_from_file with a strict parse: a line that gives no pair
\* ends the load with an error.
RECURSIVE load_lines_strict(_, _)
load_lines_strict(c, ls) ==
    IF ls = <<>> \/ c.panicked THEN [self |-> c, ret |-> "Ok"]
    ELSE IF ~readable(Head(ls)) THEN [self |-> c, ret |-> "Err"]
    ELSE LET kv == parse_line(Head(ls))
         IN  IF kv = None THEN [self |-> c, ret |-> "Err"]
             ELSE load_lines_strict(put(c, kv[1][1], kv[1][2]), Tail(ls))

\* The loop of load_from_file: the cache after it and the io::Result.
RECURSIVE load_lines(_, _)
load_lines(c, ls) ==
    IF ls = <<>> \/ c.panicked THEN [self |-> c, ret |-> "Ok"]
    ELSE IF ~readable(Head(ls)) THEN [self |-> c, ret |-> "Err"]
    ELSE LET kv == parse_line(Head(ls))
         IN  load_lines(IF kv # None THEN put(c, kv[1][1], kv[1][2]) ELSE c, Tail(ls))

\* load_from_file without the exists() test: File::open fails on a missing file.
load_from_file_unchecked(c, f) ==
    IF f = None THEN [self |-> c, ret |-> "Err"]
    ELSE load_lines(c, lines(f[1]))

load_from_file(c, f) ==
    IF f = None THEN [self |-> c, ret |-> "Ok"]
    ELSE load_lines(c, lines(f[1]))

\* new_persistent with unwrap() on the result of the load.
new_persistent_unwrap(cap, f) ==
    LET r == load_from_file(new(cap), f)
    IN  IF r.ret = "Err" THEN Panic(r.self) ELSE r.self

\* new_persistent: the result of the load is discarded.
new_persistent(cap, f) == load_from_file(new(cap), f).self

----------------------------------------------------------------------------
(* History *)

\* k becomes the most recently used key.
touch(u, k) == <<k>> \o SelectSeq(u, LAMBDA x : x # k)

RECURSIVE touch_lines(_, _)
touch_lines(u, ls) ==
    IF ls = <<>> \/ ~readable(Head(ls)) THEN u
    ELSE LET kv == parse_line(Head(ls))
         IN  touch_lines(IF kv # None THEN touch(u, kv[1][1]) ELSE u, Tail(ls))

touch_file(u, f) == IF f = None THEN u ELSE touch_lines(u, lines(f[1]))

\* A call: its arguments, what it returned, whether its key was in the table
\* when it was made (hit), how many entries the table held then (size), and
\* whether it is a get that follows a get of the same key (again).
Call(op, key, value, ret, hit, size) ==
    [op |-> op, key |-> key, value |-> value, ret |-> ret, hit |-> hit, size |-> size,
     again |-> (op = "get" /\ last.op = "get" /\ last.key = key)]

\* The construction of the cache, which no call precedes.
Constructed ==
    [op |-> "new", key |-> None, value |-> None, ret |-> None, hit |-> FALSE, size |-> 0,
     again |-> FALSE]

----------------------------------------------------------------------------
(* The state machine *)

Self == [capacity |-> capacity, map |-> map, head |-> head, tail |-> tail,
         panicked |-> panicked]

Store(c) ==
    /\ capacity' = c.capacity
    /\ map' = c.map
    /\ head' = c.head
    /\ tail' = c.tail
    /\ panicked' = c.panicked

Init ==
    /\ ty = "String"
    /\ capacity \in 0..MaxCapacity
    /\ map = new(capacity).map
    /\ head = new(capacity).head
    /\ tail = new(capacity).tail
    /\ panicked = FALSE
    /\ file = None
    /\ used = <<>>
    /\ last = Constructed

Put(k, v) ==
    /\ ~panicked
    /\ Store(put(Self, k, v))
    /\ used' = touch(used, k)
    /\ last' = Call("put", Some(k), Some(v), None, contains_key(map, k), len(map))
    /\ UNCHANGED <<ty, file>>

Get(k) ==
    /\ ~panicked
    /\ LET r == get(Self, k)
       IN  /\ Store(r.self)
           /\ last' = Call("get", Some(k), None, r.ret, contains_key(map, k), len(map))
    /\ used' = IF contains_key(map, k) THEN touch(used, k) ELSE used
    /\ UNCHANGED <<ty, file>>

SaveToFile ==
    /\ ~panicked
    /\ \E order \in IterOrders(map) :
         LET r == save_to_file(Self, order)
         IN  /\ file' = r.file
             /\ last' = Call("save_to_file", None, None, r.ret, FALSE, len(map))
    /\ UNCHANGED <<ty, capacity, map, head, tail, panicked, used>>

LoadFromFile ==
    /\ ~panicked
    /\ LET r == load_from_file(Self, file)
       IN  /\ Store(r.self)
           /\ last' = Call("load_from_file", None, None, r.ret, FALSE, len(map))
    /\ used' = touch_file(used, file)
    /\ UNCHANGED <<ty, file>>

\* The program starts again: the cache in use is dropped and a new one is made.
NewPersistent(cap) ==
    /\ ~panicked
    /\ Store(new_persistent(cap, file))
    /\ used' = touch_file(<<>>, file)
    /\ last' = Call("new_persistent", None, None, None, FALSE, 0)
    /\ UNCHANGED <<ty, file>>

Next ==
    \/ \E k \in Keys, v \in Values : Put(k, v)
    \/ \E k \in Keys : Get(k)
    \/ SaveToFile
    \/ LoadFromFile
    \/ \E cap \in 0..MaxCapacity : NewPersistent(cap)

\* The whole program.
Spec == Init /\ [][Next]_vars

\* The eviction engine alone: put and get on a cache made by new.
NextLRU ==
    \/ \E k \in LruKeys, v \in Values : Put(k, v)
    \/ \E k \in LruKeys : Get(k)

SpecLRU == Init /\ [][NextLRU]_vars

\* Loading a file that the program did not write itself. The lines such a
\* file is made of: pairs, a key listed twice, a line without a tab, fields
\* that do not parse, a line that cannot be read.
FileLines(t) ==
    IF t = "String"
    THEN {<<"a", TAB, "x">>, <<"b", TAB, "y">>, <<"c", TAB, "x">>, <<"a", TAB, "y">>,
          <<"j">>, <<"b", TAB, INVALID>>}
    ELSE {<<"1", TAB, "1">>, <<"2", TAB, "2">>, <<"3", TAB, "1">>, <<"+", "1", TAB, "2">>,
          <<"x", TAB, "1">>, <<"2", TAB, "x">>}

RECURSIVE join(_)
join(ls) == IF ls = <<>> THEN <<>> ELSE Head(ls) \o <<LF>> \o join(Tail(ls))

Files(t) == {join(ls) : ls \in UNION {[1..n -> FileLines(t)] : n \in 0..MaxLines}}

\* The keys and values put by the callers of a Cache<t, t>.
KeysOf(t) == IF t = "String" THEN Keys ELSE {1, 2, 3}
ValuesOf(t) == IF t = "String" THEN {<<"z">>} ELSE {0}

InitLoad ==
    /\ ty \in {"String", "i32"}
    /\ capacity \in 0..MaxCapacity
    /\ map = new(capacity).map
    /\ head = new(capacity).head
    /\ tail = new(capacity).tail
    /\ panicked = FALSE
    /\ file \in {None} \cup {Some(f) : f \in Files(ty)}
    /\ used = <<>>
    /\ last = Constructed

NextLoad ==
    \/ \E k \in KeysOf(ty), v \in ValuesOf(ty) : Put(k, v)
    \/ LoadFromFile
    \/ \E cap \in 0..MaxCapacity : NewPersistent(cap)

SpecLoad == InitLoad /\ [][NextLoad]_vars

----------------------------------------------------------------------------
(* Reading the recency list *)

\* The keys met from cur along the next links, at most fuel of them.
RECURSIVE walk(_, _, _)
walk(m, cur, fuel) ==
    IF cur = None \/ fuel = 0 \/ ~contains_key(m, cur[1]) THEN <<>>
    ELSE <<cur[1]>> \o walk(m, m[cur[1]].next, fuel - 1)

\* The keys from head to tail, most recently used first.
Order == walk(map, head, len(map) + 1)

Without(s, k) == SelectSeq(s, LAMBDA x : x # k)
SameValues(S) == \A j \in S : map'[j].value = map[j].value

\* The steps that are a put, a get, a load_from_file, and the key of the call.
IsPut == last'.op = "put"
IsGet == last'.op = "get"
IsLoad == last'.op = "load_from_file"
CallKey == last'.key[1]

----------------------------------------------------------------------------
(* Properties *)

\* C1: on a cache of capacity >= 1 the table never holds more than capacity
\* entries, whatever put, get and load_from_file calls were made.
CapacityBound == capacity >= 1 => len(map) <= capacity

\* A load has just pushed more keys through the cache than it can hold.
CapacityBoundWitness ==
    /\ capacity >= 1
    /\ last.op = "load_from_file"
    /\ Len(used) > capacity
    /\ len(map) = capacity

\* The keys of the table, least recently put or hit last.
UsedInTable == SelectSeq(used, LAMBDA x : contains_key(map, x))

\* C2: a put of an absent key into a table holding exactly capacity >= 1
\* entries removes exactly the entry at tail, which is the least recently put
\* or hit key of the table; the other entries keep their values and their
\* relative recency order.
EvictsTail ==
    [][(IsPut /\ ~contains_key(map, CallKey) /\ len(map) = capacity /\ capacity >= 1)
         => /\ ~panicked'
            /\ tail # None
            /\ tail[1] = Order[Len(Order)]
            /\ tail[1] = UsedInTable[Len(UsedInTable)]
            /\ DOMAIN map' = (DOMAIN map \ {tail[1]}) \cup {CallKey}
            /\ len(map') = len(map)
            /\ SameValues(DOMAIN map \ {tail[1]})
            /\ Without(Order', CallKey) = SubSeq(Order, 1, Len(Order) - 1)]_vars

\* A put of an absent key has just evicted from a full table of three
\* entries whose values differ.
EvictsTailWitness ==
    /\ last.op = "put" /\ ~last.hit
    /\ capacity = 3 /\ last.size = capacity
    /\ len(map) = capacity
    /\ map[Order[2]].value # map[Order[3]].value

\* C3: a get of a present key returns the stored value and moves the key to
\* head; the keys, the values and the relative order of the other keys stay,
\* and the key is not the tail when the table holds two entries or more.
GetPromotes ==
    [][(IsGet /\ contains_key(map, CallKey))
         => /\ ~panicked'
            /\ last'.ret = Some(map[CallKey].value)
            /\ head' = Some(CallKey)
            /\ Order'[1] = CallKey
            /\ DOMAIN map' = DOMAIN map
            /\ SameValues(DOMAIN map)
            /\ Without(Order', CallKey) = Without(Order, CallKey)
            /\ (len(map) >= 2 => tail' # Some(CallKey))]_vars

\* A get has just hit a key of a full table of three entries.
GetPromotesWitness ==
    /\ last.op = "get" /\ last.hit
    /\ capacity = 3 /\ len(map) = 3
    /\ head = last.key

\* C4: a get of an absent key returns None and changes neither the table nor
\* head, tail or any link.
GetMissChangesNothing ==
    [][(IsGet /\ ~contains_key(map, CallKey))
         => /\ last'.ret = None
            /\ ~panicked'
            /\ UNCHANGED <<capacity, map, head, tail>>]_vars

\* A get has just missed on a table that holds entries.
GetMissWitness ==
    /\ last.op = "get" /\ ~last.hit
    /\ len(map) >= 2

\* C5: a put of a present key replaces its value and moves it to head; no key
\* is evicted and the size stays, also on a full table; the other keys keep
\* their values and their relative order.
PutOverwrites ==
    [][(IsPut /\ contains_key(map, CallKey))
         => /\ ~panicked'
            /\ DOMAIN map' = DOMAIN map
            /\ map'[CallKey].value = last'.value[1]
            /\ head' = Some(CallKey)
            /\ Order'[1] = CallKey
            /\ SameValues(DOMAIN map \ {CallKey})
            /\ Without(Order', CallKey) = Without(Order, CallKey)]_vars

\* A put has just overwritten the value of a key of a full table with another.
PutOverwritesWitness ==
    /\ last.op = "put" /\ last.hit
    /\ capacity = 3 /\ last.size = capacity
    /\ \E k \in DOMAIN map : map[k].value # map[last.key[1]].value

\* After a put on a cache of capacity >= 1 the key is in the table with the
\* value put, and it is head.
PutIsHead ==
    (last.op = "put" /\ capacity >= 1)
    => /\ ~panicked
       /\ contains_key(map, last.key[1])
       /\ map[last.key[1]].value = last.value[1]
       /\ head = last.key

\* A get of the key that was just put returns the value put.
GetAfterPut ==
    (last.op = "put" /\ capacity >= 1 /\ last'.op = "get" /\ last'.key = last.key)
    => last'.ret = last.value

\* C6: for capacity >= 1, after put(k, v) the key k is in the table with value
\* v and is head, and a get(k) made right after it returns v.
PutThenGet == []PutIsHead /\ [][GetAfterPut]_vars

\* A put of an absent key into a full table has just returned.
PutThenGetWitness ==
    /\ last.op = "put" /\ ~last.hit
    /\ capacity >= 1 /\ last.size = capacity
    /\ head = last.key

\* The keys that head, tail and the links name.
Referenced ==
    {o[1] : o \in ({head, tail} \cup {map[k].prev : k \in DOMAIN map}
                                 \cup {map[k].next : k \in DOMAIN map}) \ {None}}

\* C7: no call panics, for any capacity, 0 included: every key that head,
\* tail, a prev or a next names is a key of the table.
NoPanic == ~panicked /\ Referenced \subseteq DOMAIN map

\* A get has just moved a key with a neighbour on each side to head, on a
\* zero-capacity cache that holds four entries.
NoPanicWitness ==
    /\ capacity = 0
    /\ last.op = "get" /\ last.hit
    /\ len(map) = 4
    /\ Referenced = DOMAIN map

\* C8: a cache of capacity 0 stays empty: put leaves the table empty and get
\* returns None.
ZeroCapacityStaysEmpty ==
    capacity = 0 => (len(map) = 0 /\ (last.op = "get" => last.ret = None))

\* A key or value that the file format carries: no tab, no newline, and it
\* parses back from its printed form.
Storable(s) ==
    /\ \A i \in 1..Len(s) : s[i] \notin {TAB, LF}
    /\ parse(fmt(s)) = Some(s)

\* C9: a cache of at most capacity entries with storable keys and values,
\* saved and then loaded into a new cache of the same capacity, gives the
\* same keys with the same values.
RoundTrip ==
    [][(/\ last.op = "save_to_file"
        /\ last'.op = "new_persistent"
        /\ capacity' = capacity
        /\ len(map) <= capacity
        /\ \A k \in DOMAIN map : Storable(k) /\ Storable(map[k].value))
       => /\ DOMAIN map' = DOMAIN map
          /\ SameValues(DOMAIN map)]_vars

\* C10: load_from_file while the file does not exist returns Ok and changes
\* nothing.
LoadMissingFileIsNoOp ==
    [][(IsLoad /\ file = None)
       => /\ last'.ret = "Ok"
          /\ ~panicked'
          /\ UNCHANGED <<capacity, map, head, tail, file>>]_vars

\* A load has just found no file, on a cache that holds entries.
LoadMissingFileWitness ==
    /\ last.op = "load_from_file"
    /\ file = None
    /\ len(map) >= 1

----------------------------------------------------------------------------
(* Loading *)

\* The (key, value) pairs of the parsable lines, in file order, up to the
\* first line that cannot be read.
RECURSIVE read_pairs(_)
read_pairs(ls) ==
    IF ls = <<>> \/ ~readable(Head(ls)) THEN <<>>
    ELSE LET kv == parse_line(Head(ls))
         IN  (IF kv # None THEN <<kv[1]>> ELSE <<>>) \o read_pairs(Tail(ls))

FilePairs == IF file = None THEN <<>> ELSE read_pairs(lines(file[1]))
FileReadable == file # None /\ \A i \in 1..Len(lines(file[1])) : readable(lines(file[1])[i])

\* put(key, value) called once per pair, in order.
RECURSIVE put_each(_, _)
put_each(c, ps) ==
    IF ps = <<>> THEN c ELSE put_each(put(c, ps[1][1], ps[1][2]), Tail(ps))

\* The distinct keys of the pairs, the one listed last first.
RECURSIVE recent(_)
recent(ps) ==
    IF ps = <<>> THEN <<>>
    ELSE touch(recent(SubSeq(ps, 1, Len(ps) - 1)), ps[Len(ps)][1])

\* The value of the last pair that lists k.
LastValue(ps, k) ==
    ps[CHOOSE i \in 1..Len(ps) :
         ps[i][1] = k /\ \A j \in (i + 1)..Len(ps) : ps[j][1] # k][2]

\* Loading more distinct keys than the capacity into an empty cache leaves
\* the capacity keys listed last, the key of the last pair at head and for
\* each key the value of its last pair.
KeepsMostRecent ==
    (map = EmptyMap /\ Len(recent(FilePairs)) > capacity)
    => /\ DOMAIN map' = {recent(FilePairs)[i] : i \in 1..capacity}
       /\ head' = Some(FilePairs[Len(FilePairs)][1])
       /\ \A k \in DOMAIN map' : map'[k].value = LastValue(FilePairs, k)

\* C11: load_from_file on a readable file leaves the cache as put(key, value)
\* called once per parsable line, in file order, leaves it; more distinct keys
\* than the capacity loaded into an empty cache leave the most recently
\* listed ones, each with the value of its last line.
LoadReplaysPuts ==
    [][(IsLoad /\ FileReadable)
       => /\ last'.ret = "Ok"
          /\ Self' = put_each(Self, FilePairs)
          /\ KeepsMostRecent]_vars

\* The same on the caches of capacity >= 1, where put evicts.
LoadReplaysPutsPositive ==
    [][(IsLoad /\ FileReadable)
       => /\ last'.ret = "Ok"
          /\ Self' = put_each(Self, FilePairs)
          /\ (capacity >= 1 => KeepsMostRecent)]_vars

\* The text of a line before its first tab, and between its first tab and
\* the next one.
KeyField(line) == SubSeq(line, 1, find(line, TAB) - 1)
ValueField(line) ==
    LET rest == SubSeq(line, find(line, TAB) + 1, Len(line))
    IN  IF find(rest, TAB) = 0 THEN rest ELSE SubSeq(rest, 1, find(rest, TAB) - 1)

\* A line that can be read and has no tab, or a key or value field that does
\* not parse.
Unparsable(line) ==
    /\ readable(line)
    /\ \/ find(line, TAB) = 0
       \/ parse(KeyField(line)) = None
       \/ parse(ValueField(line)) = None

FileLinesRead == IF file = None THEN <<>> ELSE lines(file[1])

\* C12: load_from_file skips a line that has no tab or a field that does not
\* parse: the load ends as it ends on the file without these lines, so the
\* later lines are put all the same; no error comes of them, and a file of
\* such lines alone changes nothing.
SkipsUnparsableLines ==
    [][(IsLoad /\ file # None)
       => LET kept == SelectSeq(FileLinesRead, LAMBDA l : ~Unparsable(l))
              r == load_lines(Self, kept)
          IN  /\ Self' = r.self
              /\ last'.ret = r.ret
              /\ (FileReadable => last'.ret = "Ok")
              /\ (kept = <<>> => UNCHANGED <<map, head, tail>>)
              /\ UNCHANGED capacity]_vars

\* A load has just skipped a first line whose field is no i32 and put the
\* pair of the line after it.
SkipsUnparsableLinesWitness ==
    /\ ty = "i32"
    /\ last.op = "load_from_file" /\ last.ret = "Ok"
    /\ Len(FileLinesRead) = 2
    /\ find(FileLinesRead[1], TAB) # 0 /\ Unparsable(FileLinesRead[1])
    /\ ~Unparsable(FileLinesRead[2])
    /\ head = parse(KeyField(FileLinesRead[2]))
    /\ ~panicked

\* A load has just skipped a first line without a tab and put the pair of
\* the line after it.
SkipsNoTabLineWitness ==
    /\ last.op = "load_from_file" /\ last.ret = "Ok"
    /\ Len(FileLinesRead) = 2
    /\ find(FileLinesRead[1], TAB) = 0
    /\ head = parse(KeyField(FileLinesRead[2]))

\* C13: new_persistent always returns a cache: it never panics, the cache is
\* empty when the file does not exist, and otherwise it is new(capacity)
\* after load_from_file, whatever the load returned.
NewPersistentAlwaysReturns ==
    [][last'.op = "new_persistent"
       => /\ ~panicked'
          /\ (file = None => map' = EmptyMap /\ head' = None /\ tail' = None)
          /\ Self' = load_from_file(new(capacity'), file).self]_vars

\* new_persistent has just returned the cache of a load that ended with an
\* error after its first line.
NewPersistentWitness ==
    /\ last.op = "new_persistent"
    /\ file # None /\ ~FileReadable
    /\ len(map) = 1

----------------------------------------------------------------------------
(* The shape of the list *)

\* The keys met from cur along the prev links, at most fuel of them.
RECURSIVE walk_back(_, _, _)
walk_back(m, cur, fuel) ==
    IF cur = None \/ fuel = 0 \/ ~contains_key(m, cur[1]) THEN <<>>
    ELSE <<cur[1]>> \o walk_back(m, m[cur[1]].prev, fuel - 1)

\* The keys from tail to head.
BackOrder == walk_back(map, tail, len(map) + 1)

Reverse(q) == [i \in 1..Len(q) |-> q[Len(q) + 1 - i]]

\* C14: after every call, for any capacity, the links form one doubly linked
\* chain: next from head visits every key of the table once and ends at tail,
\* prev from tail visits them in the reverse order and ends at head, and
\* a.next = b exactly when b.prev = a.
OneChain ==
    /\ Len(Order) = len(map)
    /\ {Order[i] : i \in 1..Len(Order)} = DOMAIN map
    /\ BackOrder = Reverse(Order)
    /\ (Order # <<>> =>
          /\ tail = Some(Order[Len(Order)]) /\ map[tail[1]].next = None
          /\ head = Some(BackOrder[Len(BackOrder)]) /\ map[head[1]].prev = None)
    /\ \A a, b \in DOMAIN map : (map[a].next = Some(b)) <=> (map[b].prev = Some(a))

\* A load has just gone through a cache that evicted, and two entries or
\* more are linked.
OneChainWitness ==
    /\ last.op = "load_from_file"
    /\ len(map) >= 2
    /\ Len(used) > len(map)

\* C15: after every call head is None exactly when the table is empty, and so
\* is tail; head and tail name the same key exactly when the table holds one
\* entry.
HeadTailPresence ==
    /\ (head = None) <=> (len(map) = 0)
    /\ (tail = None) <=> (len(map) = 0)
    /\ (head # None /\ head = tail) <=> (len(map) = 1)

\* A put has just evicted the only entry of a cache of capacity 1.
HeadTailPresenceWitness ==
    /\ capacity = 1
    /\ last.op = "put" /\ ~last.hit /\ last.size = 1
    /\ head = tail /\ head = last.key

----------------------------------------------------------------------------
(* The abstract LRU *)

\* An abstract LRU: the keys, most recent first, and the value of each.
AbsEmpty == [seq |-> <<>>, val |-> EmptyMap]

abs_put(a, cap, k, v) ==
    LET kept == IF contains_key(a.val, k) THEN Without(a.seq, k)
                ELSE IF Len(a.seq) = cap THEN SubSeq(a.seq, 1, Len(a.seq) - 1)
                ELSE a.seq
    IN  [seq |-> <<k>> \o kept,
         val |-> [x \in {kept[i] : i \in 1..Len(kept)} \cup {k} |->
                    IF x = k THEN v ELSE a.val[x]]]

abs_get(a, k) ==
    IF contains_key(a.val, k)
    THEN [abs |-> [a EXCEPT !.seq = <<k>> \o Without(a.seq, k)], ret |-> Some(a.val[k])]
    ELSE [abs |-> a, ret |-> None]

\* What the cache stands for: its chain from head, and its table without the links.
Abs == [seq |-> Order, val |-> [k \in DOMAIN map |-> map[k].value]]

\* C16: for capacity >= 1 the cache refines the abstract LRU: it starts as the
\* empty one, and each put and get takes the chain and the table where the
\* abstract put and get take the sequence and the map, with the same result.
RefinesAbstractLRU ==
    /\ Abs = AbsEmpty
    /\ [][capacity >= 1 =>
            /\ IsPut => Abs' = abs_put(Abs, capacity, CallKey, last'.value[1])
            /\ IsGet => /\ Abs' = abs_get(Abs, CallKey).abs
                        /\ last'.ret = abs_get(Abs, CallKey).ret]_vars

\* A get has just hit on a full cache of three entries that evicted before.
RefinesAbstractLRUWitness ==
    /\ capacity = 3 /\ len(map) = 3
    /\ last.op = "get" /\ last.hit
    /\ Len(used) > 3

\* The place of k among the keys put or hit, 0 when it was never put.
Rank(k) ==
    IF \E i \in 1..Len(used) : used[i] = k
    THEN CHOOSE i \in 1..Len(used) : used[i] = k
    ELSE 0

\* C17: for capacity >= 1 a key is in the table exactly when it was put and
\* at most capacity - 1 distinct other keys were put or hit since it was last
\* put or hit.
PresentIffRecent ==
    capacity >= 1 =>
      \A k \in LruKeys : contains_key(map, k) <=> (Rank(k) >= 1 /\ Rank(k) - 1 <= capacity - 1)

\* A get has just missed an evicted key on a full cache of two, with a third
\* key evicted as well.
PresentIffRecentWitness ==
    /\ capacity = 2 /\ len(map) = 2
    /\ last.op = "get" /\ ~last.hit
    /\ Rank(last.key[1]) = 3
    /\ Len(used) = 4

\* C18: a get of a present key made right after a get of the same key returns
\* the same value and leaves the cache as the first one left it, the key at
\* head.
SecondGetChangesNothing ==
    [][(last.op = "get" /\ last.hit /\ IsGet /\ last'.key = last.key)
       => /\ last'.ret = last.ret
          /\ ~panicked'
          /\ head' = last.key
          /\ UNCHANGED <<capacity, map, head, tail>>]_vars

\* The second of two gets in a row of a key of a table of three has just hit.
SecondGetWitness ==
    /\ last.op = "get" /\ last.hit /\ last.again
    /\ len(map) >= 3
    /\ head = last.key

\* C19: get removes no key; put(k, v) does not remove k and removes another
\* key only when k is absent and the table holds exactly capacity entries; so
\* the size never decreases, and for capacity >= 1 it stays at capacity once
\* it is there.
LeavesOnlyByEviction ==
    [][/\ IsGet => DOMAIN map \subseteq DOMAIN map'
       /\ IsPut => /\ contains_key(map', CallKey)
                   /\ (~(DOMAIN map \subseteq DOMAIN map')
                         => ~contains_key(map, CallKey) /\ len(map) = capacity)
       /\ len(map') >= len(map)
       /\ (capacity >= 1 /\ len(map) = capacity) => len(map') = capacity]_vars

\* A put has just evicted from a full table.
LeavesOnlyByEvictionWitness ==
    /\ last.op = "put" /\ ~last.hit
    /\ capacity >= 2 /\ last.size = capacity
    /\ len(map) = capacity
    /\ Len(used) > capacity

----------------------------------------------------------------------------
(* A load that fails *)

\* The lines before the first one that cannot be read.
RECURSIVE before_unreadable(_)
before_unreadable(ls) ==
    IF ls = <<>> \/ ~readable(Head(ls)) THEN <<>>
    ELSE <<Head(ls)>> \o before_unreadable(Tail(ls))

\* C20: a load that meets a line it cannot read returns the error and keeps
\* what it did: the cache is as the puts of the parsable lines before that
\* line leave it, within the capacity bound and with its chain in order.
FailedLoadKeepsPuts ==
    [][(IsLoad /\ file # None /\ ~FileReadable)
       => /\ last'.ret = "Err"
          /\ Self' = put_each(Self, read_pairs(before_unreadable(FileLinesRead)))
          /\ len(map') <= capacity'
          /\ OneChain'
          /\ HeadTailPresence']_vars

\* The same with the capacity bound of the caches of capacity >= 1.
FailedLoadKeepsPutsPositive ==
    [][(IsLoad /\ file # None /\ ~FileReadable)
       => /\ last'.ret = "Err"
          /\ Self' = put_each(Self, read_pairs(before_unreadable(FileLinesRead)))
          /\ CapacityBound'
          /\ OneChain'
          /\ HeadTailPresence']_vars

====
